---- MODULE Spec2Model ----
(***************************************************************************)
(* Mini Travel Diary: the in-memory entry repository (server/storage.ts),  *)
(* the insert schema (shared/schema.ts) and the Express entry routes       *)
(* (registerRoutes).  Every route handler is an async function: the model  *)
(* splits it at its awaits, so that handlers of several requests may       *)
(* interleave exactly where the event loop lets them.                      *)
(***************************************************************************)
EXTENDS Integers, Sequences, FiniteSets, TLC

(***************************************************************************)
(* Bounds of the model.                                                    *)
(***************************************************************************)
\* createEntry is not started once this many ids have been handed out
MaxId == 2
\* uuidv4() is not called once this many tokens have been generated
MaxTokens == 2
\* the same as MaxId, for the runs over the wide range of submissions
MaxInputId == 1
\* the same as MaxId, for the runs with requests in flight together
MaxAsyncId == 2
\* the same as MaxId, for the runs of delete against share and unshare
MaxRaceId == 1
\* openCamera is not clicked once this many getUserMedia calls were made
MaxStreams == 2
\* capturePhoto is not clicked while this many toBlob callbacks are queued
MaxCaptures == 1
\* the form is not submitted once this many submissions were started
MaxSubmits == 2
\* the sides of the images are 1, 799, 801 and the multiples of 200 up to
\* this many times 200
MaxImageSide == 8

(***************************************************************************)
(* JSON scalars.  A value of a request body is a record whose field t is   *)
(* the JavaScript type; a number has its value in n, a string its text in  *)
(* s, a boolean its value in b.                                            *)
(***************************************************************************)
Undefined == [t |-> "undefined"]
Null == [t |-> "null"]
NaN == [t |-> "nan"]
Num(n) == [t |-> "number", n |-> n]
Str(s) == [t |-> "string", s |-> s]
Bool(b) == [t |-> "boolean", b |-> b]

\* JavaScript truthiness, as used by !x, x || y and x && y
Truthy(v) ==
    CASE v.t = "number" -> v.n # 0
      [] v.t = "string" -> v.s # ""
      [] v.t = "boolean" -> v.b
      [] v.t = "object" -> TRUE
      [] OTHER -> FALSE

\* x || y
OrElse(x, y) == IF Truthy(x) THEN x ELSE y

\* Number(x) for the scalars of the model: a number is itself, null and the
\* empty string are 0, any other text of the model is not numeric
ToNumber(v) ==
    CASE v.t = "number" -> v
      [] v.t = "null" -> Num(0)
      [] v.t = "string" /\ v.s = "" -> Num(0)
      [] OTHER -> NaN

\* a location value of a body: Undefined (key absent), Null, a scalar, or
\* an object whose lat and lng are scalars, Undefined for a missing key
NoLocation == Undefined
NullLocation == Null
Location(lat, lng) == [t |-> "object", lat |-> lat, lng |-> lng]

\* a screenInfo value of a body: Undefined, Null, a scalar, or an object
NoScreenInfo == Undefined
ScreenInfo(w, h, o) ==
    [t |-> "object", width |-> w, height |-> h, orientation |-> o]

\* x?.f for the three fields of screenInfo
WidthOf(x) == IF x.t = "object" THEN x.width ELSE Undefined
HeightOf(x) == IF x.t = "object" THEN x.height ELSE Undefined
OrientationOf(x) == IF x.t = "object" THEN x.orientation ELSE Undefined

PlaceholderCaption == "My travel memory"
RouteDefaultCaption == "My travel moment"
PlaceholderImage ==
    "data:image/png;base64,iVBORw0KGgoAAAANSUhEUgAAAAEAAAABCAYAAAAfFcSJAAAADUlEQVR42mP8z8BQDwAEhQGAhKmMIQAAAABJRU5ErkJggg=="

(***************************************************************************)
(* MemStorage.  this.entries is a JavaScript Map: the model keeps it as    *)
(* the sequence of its values in the Map's iteration (insertion) order.    *)
(***************************************************************************)
\* Map.prototype.get: <<>> for undefined, <<e>> for the entry
MapGet(ents, id) ==
    IF \E i \in 1..Len(ents) : ents[i].id = id
    THEN <<ents[CHOOSE i \in 1..Len(ents) : ents[i].id = id]>>
    ELSE <<>>

\* Map.prototype.set: an existing key keeps its place, a new key goes last
MapSet(ents, id, e) ==
    IF \E i \in 1..Len(ents) : ents[i].id = id
    THEN [i \in 1..Len(ents) |-> IF ents[i].id = id THEN e ELSE ents[i]]
    ELSE Append(ents, e)

\* Map.prototype.delete
MapDelete(ents, id) == SelectSeq(ents, LAMBDA e : e.id # id)

\* mutant of CompareCreatedAt: oldest first
CompareCreatedAtAscending(a, b) == a.createdAt - b.createdAt

\* the comparator of getEntriesByUserId's sort: negative puts a first
CompareCreatedAt(a, b) == b.createdAt - a.createdAt

\* mutant of InsertSorted: an element goes before the elements already
\* placed that the comparator holds equal to it
RECURSIVE InsertSortedBeforeTies(_, _)
InsertSortedBeforeTies(sorted, e) ==
    IF sorted = <<>> THEN <<e>>
    ELSE IF CompareCreatedAt(sorted[Len(sorted)], e) < 0
         THEN Append(sorted, e)
         ELSE Append(InsertSortedBeforeTies(SubSeq(sorted, 1, Len(sorted) - 1), e),
                     sorted[Len(sorted)])

\* Array.prototype.sort is stable: an element goes after every element
\* already placed that the comparator does not order after it
RECURSIVE InsertSorted(_, _)
InsertSorted(sorted, e) ==
    IF sorted = <<>> THEN <<e>>
    ELSE IF CompareCreatedAt(sorted[Len(sorted)], e) <= 0
         THEN Append(sorted, e)
         ELSE Append(InsertSorted(SubSeq(sorted, 1, Len(sorted) - 1), e),
                     sorted[Len(sorted)])

RECURSIVE SortEntries(_)
SortEntries(list) ==
    IF list = <<>> THEN <<>>
    ELSE InsertSorted(SortEntries(SubSeq(list, 1, Len(list) - 1)),
                      list[Len(list)])

\* the filter predicate of getEntriesByUserId
OwnedBy(entry, userId) == entry.userId = userId

getEntriesByUserId(ents, userId) ==
    SortEntries(SelectSeq(ents, LAMBDA e : OwnedBy(e, userId)))

\* mutant of getEntry: an id the Map does not hold yields the Map's first
\* entry
getEntryOrFirst(ents, id) ==
    IF MapGet(ents, id) # <<>> \/ ents = <<>> THEN MapGet(ents, id)
    ELSE <<ents[1]>>

getEntry(ents, id) == MapGet(ents, id)

\* mutant of getEntryByShareId: the isShared test is left out
getEntryByShareIdAnyFlag(ents, shareId) ==
    LET hits == SelectSeq(ents, LAMBDA e : e.shareId = shareId)
    IN  IF hits = <<>> THEN <<>> ELSE <<hits[1]>>

\* Array.prototype.find over the Map's values: the first match, or undefined
getEntryByShareId(ents, shareId) ==
    LET hits == SelectSeq(ents, LAMBDA e : e.shareId = shareId /\ e.isShared)
    IN  IF hits = <<>> THEN <<>> ELSE <<hits[1]>>

\* mutant of updateEntrySharing: shareId is stored as passed, no fallback
updateEntrySharingAsPassed(ents, id, isShared, shareId) ==
    LET entry == MapGet(ents, id)
    IN  IF entry = <<>>
        THEN [entries |-> ents, updated |-> <<>>]
        ELSE LET updatedEntry ==
                     [entry[1] EXCEPT !.isShared = isShared, !.shareId = shareId]
             IN  [entries |-> MapSet(ents, id, updatedEntry),
                  updated |-> <<updatedEntry>>]

\* mutant of updateEntrySharing: an id the Map does not hold is given a
\* record of its own
updateEntrySharingUpsert(ents, id, isShared, shareId) ==
    LET entry == MapGet(ents, id)
        blank == [id |-> id, userId |-> "", caption |-> "", imageUrl |-> "",
                  location |-> NullLocation,
                  screenInfo |-> ScreenInfo(Num(0), Num(0), Str("unknown")),
                  createdAt |-> 0, shareId |-> Null, isShared |-> FALSE]
        old == IF entry = <<>> THEN blank ELSE entry[1]
        updatedEntry ==
            [old EXCEPT !.isShared = isShared,
                        !.shareId = OrElse(shareId, old.shareId)]
    IN  [entries |-> MapSet(ents, id, updatedEntry),
         updated |-> <<updatedEntry>>]

\* mutant of updateEntrySharing: the update is written to every entry of
\* the Map
updateEntrySharingEveryEntry(ents, id, isShared, shareId) ==
    LET entry == MapGet(ents, id)
        Update(e) == [e EXCEPT !.isShared = isShared,
                               !.shareId = OrElse(shareId, e.shareId)]
    IN  IF entry = <<>>
        THEN [entries |-> ents, updated |-> <<>>]
        ELSE [entries |-> [i \in 1..Len(ents) |-> Update(ents[i])],
              updated |-> <<Update(entry[1])>>]

\* returns the new Map and the updated entry (<<>> when the id is unknown);
\* shareId is Undefined when the caller passes two arguments
updateEntrySharing(ents, id, isShared, shareId) ==
    LET entry == MapGet(ents, id)
    IN  IF entry = <<>>
        THEN [entries |-> ents, updated |-> <<>>]
        ELSE LET updatedEntry ==
                     [entry[1] EXCEPT !.isShared = isShared,
                                      !.shareId = OrElse(shareId, entry[1].shareId)]
             IN  [entries |-> MapSet(ents, id, updatedEntry),
                  updated |-> <<updatedEntry>>]

\* the location stored by createEntry: null unless the value is an object
\* with both keys, and then Number() of each
StoredLocation(location) ==
    IF location.t = "object" /\ location.lat.t # "undefined"
          /\ location.lng.t # "undefined"
    THEN Location(ToNumber(location.lat), ToNumber(location.lng))
    ELSE NullLocation

\* the screenInfo stored by createEntry: x?.f || default, field by field
StoredScreenInfo(screenInfo) ==
    ScreenInfo(OrElse(WidthOf(screenInfo), Num(0)),
               OrElse(HeightOf(screenInfo), Num(0)),
               OrElse(OrientationOf(screenInfo), Str("unknown")))

\* mutant of NewEntry: shareId and isShared are taken from the submission
NewEntryAsSubmitted(id, entryData, now) ==
    [id |-> id,
     userId |-> entryData.userId.s,
     caption |-> OrElse(entryData.caption, Str(PlaceholderCaption)).s,
     imageUrl |-> OrElse(entryData.imageUrl, Str(PlaceholderImage)).s,
     location |-> StoredLocation(entryData.location),
     screenInfo |-> StoredScreenInfo(entryData.screenInfo),
     createdAt |-> now,
     shareId |-> OrElse(entryData.shareId, Null),
     isShared |-> entryData.isShared = Bool(TRUE)]

\* the entry createEntry builds for an id
NewEntry(id, entryData, now) ==
    [id |-> id,
     userId |-> entryData.userId.s,
     caption |-> OrElse(entryData.caption, Str(PlaceholderCaption)).s,
     imageUrl |-> OrElse(entryData.imageUrl, Str(PlaceholderImage)).s,
     location |-> StoredLocation(entryData.location),
     screenInfo |-> StoredScreenInfo(entryData.screenInfo),
     createdAt |-> now,
     shareId |-> Null,
     isShared |-> FALSE]

\* mutant of createEntry: the id is the Map's size plus one
createEntryBySize(ents, curId, entryData, now) ==
    LET newEntry == NewEntry(Len(ents) + 1, entryData, now)
    IN  [entries |-> MapSet(ents, Len(ents) + 1, newEntry),
         currentId |-> curId + 1,
         newEntry |-> newEntry]

\* mutant of createEntry: the counter is read and not advanced
createEntryStaleCounter(ents, curId, entryData, now) ==
    LET newEntry == NewEntry(curId, entryData, now)
    IN  [entries |-> MapSet(ents, curId, newEntry),
         currentId |-> curId,
         newEntry |-> newEntry]

\* returns the new Map, the new counter and the created entry; now is the
\* reading of new Date()
createEntry(ents, curId, entryData, now) ==
    LET id == curId
        newEntry == NewEntry(id, entryData, now)
    IN  [entries |-> MapSet(ents, id, newEntry),
         currentId |-> curId + 1,
         newEntry |-> newEntry]

\* mutant of deleteEntry: the id is taken for a position in the Map
deleteEntryAtPosition(ents, id) ==
    [i \in 1..(Len(ents) - (IF id \in 1..Len(ents) THEN 1 ELSE 0)) |->
        IF i < id THEN ents[i] ELSE ents[i + 1]]

deleteEntry(ents, id) == MapDelete(ents, id)

(***************************************************************************)
(* parseInt(text) with no radix.  A path parameter is a sequence of        *)
(* one-character strings over the characters of HexDigits, "x", "-", "+",  *)
(* "." and " ".                                                            *)
(***************************************************************************)
HexDigits ==
    <<"0", "1", "2", "3", "4", "5", "6", "7", "8", "9",
      "a", "b", "c", "d", "e", "f">>

\* the value of c as a digit of the radix, or -1
DigitValue(c, radix) ==
    IF \E i \in 1..radix : HexDigits[i] = c
    THEN (CHOOSE i \in 1..radix : HexDigits[i] = c) - 1
    ELSE -1

\* StrWhiteSpaceChar is skipped at the front only
RECURSIVE TrimStart(_)
TrimStart(text) ==
    IF text # <<>> /\ Head(text) = " " THEN TrimStart(Tail(text)) ELSE text

\* the longest prefix of text made of digits of the radix
RECURSIVE DigitPrefix(_, _)
DigitPrefix(text, radix) ==
    IF text = <<>> \/ DigitValue(Head(text), radix) < 0 THEN <<>>
    ELSE <<Head(text)>> \o DigitPrefix(Tail(text), radix)

RECURSIVE DigitsValue(_, _)
DigitsValue(digits, radix) ==
    IF digits = <<>> THEN 0
    ELSE radix * DigitsValue(SubSeq(digits, 1, Len(digits) - 1), radix)
         + DigitValue(digits[Len(digits)], radix)

parseInt(text) ==
    LET trimmed == TrimStart(text)
        signed == trimmed # <<>> /\ Head(trimmed) \in {"-", "+"}
        sign == IF trimmed # <<>> /\ Head(trimmed) = "-" THEN -1 ELSE 1
        unsigned == IF signed THEN Tail(trimmed) ELSE trimmed
        hex == Len(unsigned) >= 2 /\ unsigned[1] = "0" /\ unsigned[2] = "x"
        radix == IF hex THEN 16 ELSE 10
        rest == IF hex THEN Tail(Tail(unsigned)) ELSE unsigned
        digits == DigitPrefix(rest, radix)
    IN  IF digits = <<>> THEN NaN ELSE Num(sign * DigitsValue(digits, radix))

isNaN(v) == v.t = "nan"

(***************************************************************************)
(* insertEntrySchema: createInsertSchema(diaryEntries) without id and      *)
(* createdAt, extended with captionText.  A notNull column without a       *)
(* default is required; a jsonb column accepts any JSON value.  A body is  *)
(* a record of the eight keys the schema keeps, Undefined for a key the    *)
(* request leaves out.                                                     *)
(***************************************************************************)
RequiredString(v) == v.t = "string"
OptionalString(v) == v.t \in {"string", "undefined"}
OptionalNullableString(v) == v.t \in {"string", "null", "undefined"}
OptionalBoolean(v) == v.t \in {"boolean", "undefined"}

insertEntrySchema(body) ==
    /\ RequiredString(body.userId)
    /\ RequiredString(body.caption)
    /\ RequiredString(body.imageUrl)
    /\ body.screenInfo.t # "undefined"
    /\ OptionalNullableString(body.shareId)
    /\ OptionalBoolean(body.isShared)
    /\ OptionalString(body.captionText)

\* "Ensure we have a caption" of POST /api/entries
EnsureCaption(entryData) ==
    IF ~Truthy(entryData.caption) /\ Truthy(entryData.captionText)
    THEN [entryData EXCEPT !.caption = entryData.captionText]
    ELSE IF ~Truthy(entryData.caption)
         THEN [entryData EXCEPT !.caption = Str(RouteDefaultCaption)]
         ELSE entryData

\* mutant of uuidv4: every call returns the same token
uuidv4Fixed(k) == Str("uuid-1")

\* uuidv4(): the k-th token generated; a version-4 UUID has 122 random bits,
\* so no two calls return the same token
uuidv4(k) == Str("uuid-" \o ToString(k))

(***************************************************************************)
(* State.                                                                  *)
(***************************************************************************)
VARIABLES
    entries,      \* MemStorage.entries, in Map order
    currentId,    \* MemStorage.currentId
    uuidCount,    \* how many tokens uuidv4() has generated
    handler,      \* per request slot: the route handler's position and locals
    out,          \* the response sent last and the request it answers, as
                  \* long as no later request has arrived
    assignedIds,  \* history: the ids createEntry has assigned, in order
    deletedIds,   \* history: the ids a DELETE has answered 200 for, in order
    shareRun,     \* history: per id, the shareIds of the last (at most two)
                  \* share responses since the last unshare response
    tokenOwner,   \* history: for the k-th token of uuidv4(), the id of the
                  \* entry the share route generated it for
    upload,       \* the Upload page's component state (useState, form field)
                  \* and the srcObject of its video element
    mounted,      \* the Upload page is mounted
    cameraRequests, \* getUserMedia calls not yet settled
    tracks,       \* per MediaStream acquired, in order: its tracks are live
    captures,     \* canvas.toBlob callbacks not yet run: the stream each of
                  \* the capturePhoto closures holds, and whether the canvas
                  \* had pixels
    submits,      \* onSubmit calls awaiting uploadImage: what each closure holds
    posted,       \* the POST /api/entries requests createEntryMutation issued
    toast,        \* the title of the toast shown last
    image,        \* an image on its way through resizeAndCompressImage
    authorization, \* req.headers.authorization of the requests that arrive
    path,         \* the location of the router: the page that is shown
    auth,         \* the state of AuthProvider: user and isLoading
    storedSession, \* the session the authentication service holds for the
                  \* browser: null, or the user of the session
    sessionLookup, \* getSession() of AuthProvider's effect is not settled
    committed,    \* the first render of the app is committed and its
                  \* effects have run
    lastNavigation, \* history: what changed the location last
    queries,      \* history: the entry queries issued, each with the page
                  \* and the user it was issued for
    signingOut,   \* the location held by the handleSignOut call that
                  \* awaits signOut(), "none" when there is none
    modals        \* per host (Header, Landing): isAuthModalOpen and
                  \* authMode of the host, authMode and isLoading of its
                  \* AuthModal, and the mode of the onSubmit call in flight

\* the state of the server, and the state of the browser
serverVars ==
    <<entries, currentId, uuidCount, handler, out, assignedIds, deletedIds,
      shareRun, tokenOwner>>

browserVars ==
    <<upload, mounted, cameraRequests, tracks, captures, submits, posted,
      toast, image>>

appVars ==
    <<authorization, path, auth, storedSession, sessionLookup, committed,
      lastNavigation, queries, signingOut, modals>>

vars == <<serverVars, browserVars, appVars>>

\* the request slots: requests whose handlers may be in flight together
Handlers == {1, 2}

\* the requests: ?userId= of the list route, :id of the four id routes,
\* the JSON body of the create route
ListRequest(userId) == [route |-> "list", userId |-> userId]
IdRequest(route, id) == [route |-> route, id |-> id]
CreateRequest(body) == [route |-> "create", body |-> body]
NoRequest == [route |-> "none"]

\* res.status(status).json(...): the status alone, or with the entries or
\* the shareId of the body
Status(status) == [status |-> status]
Entries(status, ents) == [status |-> status, entries |-> ents]
ShareLink(status, shareId) == [status |-> status, shareId |-> shareId]
NoResponse == Status(0)

IdleHandler == [pc |-> "idle"]

\* a slot takes a new request when its handler has answered the last one
Free(p) == handler[p].pc = "idle"

\* a handler at an await: its position, its request, the parsed id and
\* the value it awaits (entry, updatedEntry, newEntry or entries)
Handler(pc, req, entryId, entry) ==
    [pc |-> pc, req |-> req, entryId |-> entryId, entry |-> entry]

\* the handler of request req in slot p sends its response and ends
Answer(p, req, resp) ==
    /\ handler' = [handler EXCEPT ![p] = IdleHandler]
    /\ out' = [req |-> req, resp |-> resp]
    /\ UNCHANGED <<browserVars, appVars>>

NoOutput == [req |-> NoRequest, resp |-> NoResponse]

\* the handler in slot p, new for a request, reaches its first await as h
Accept(p, h) ==
    /\ handler' = [handler EXCEPT ![p] = h]
    /\ out' = NoOutput
    /\ UNCHANGED <<browserVars, appVars>>

\* the handler in slot p goes on as h, to its next await
Await(p, h) ==
    /\ handler' = [handler EXCEPT ![p] = h]
    /\ UNCHANGED <<out, browserVars, appVars>>

\* a file of the picker or of the camera; the object URL made for it
File(name) == [t |-> "object", name |-> name]
ObjectUrl(file) == Str("blob:" \o file.name)

\* the k-th MediaStream getUserMedia resolved with
MediaStream(k) == [t |-> "object", id |-> k]

\* no image is on its way
NoImage == [phase |-> "none"]

\* the server as constructed: an empty Map, the counter at 1
InitServer ==
    /\ entries = <<>>
    /\ currentId = 1
    /\ uuidCount = 0
    /\ handler = [p \in Handlers |-> IdleHandler]
    /\ out = NoOutput
    /\ assignedIds = <<>>
    /\ deletedIds = <<>>
    /\ shareRun = <<>>
    /\ tokenOwner = <<>>

\* the state of the Upload page at its first render
FreshUpload ==
    [file |-> Null, previewUrl |-> Null, showCamera |-> FALSE,
     stream |-> Null, srcObject |-> Null, location |-> Null,
     isGettingLocation |-> FALSE, captionText |-> ""]

\* the Upload page as first rendered for a logged-in user
InitUpload ==
    /\ upload = FreshUpload
    /\ mounted = TRUE
    /\ cameraRequests = 0
    /\ tracks = <<>>
    /\ captures = <<>>
    /\ submits = <<>>
    /\ posted = <<>>
    /\ toast = ""

\* the user object of a session
SessionUser == [t |-> "object", id |-> "u1"]

\* the components that hold an AuthModal
Hosts == {"Header", "Landing"}

\* the initial authMode of a host: useState('login') in Header,
\* useState('signup') in Landing
InitialMode(host) == IF host = "Header" THEN "login" ELSE "signup"

\* a host and its AuthModal at their first render: the modal's authMode is
\* useState(defaultMode), the defaultMode being the host's authMode
InitModals ==
    [host \in Hosts |->
        [host |-> [isAuthModalOpen |-> FALSE, authMode |-> InitialMode(host)],
         modal |-> [authMode |-> InitialMode(host), isLoading |-> FALSE],
         submitted |-> "none"]]

\* the app around the Upload page of a logged-in user: the session lookup
\* is over, the requests the server receives carry no Authorization header
InitApp ==
    /\ authorization = Undefined
    /\ path = "/upload"
    /\ auth = [user |-> SessionUser, isLoading |-> FALSE]
    /\ storedSession = SessionUser
    /\ sessionLookup = FALSE
    /\ committed = TRUE
    /\ lastNavigation = "link"
    /\ queries = {}
    /\ signingOut = "none"
    /\ modals = InitModals

Init ==
    /\ InitServer
    /\ InitUpload
    /\ image = NoImage
    /\ InitApp

\* the run of share responses of an id (ids are 1, 2, ... in order)
RunOf(id) == IF id \in 1..Len(shareRun) THEN shareRun[id] ELSE <<>>

(***************************************************************************)
(* GET /api/entries?userId=ID                                              *)
(***************************************************************************)
GetEntriesStart(p, userId) ==
    /\ Free(p)
    /\ IF ~Truthy(userId)
       THEN Answer(p, ListRequest(userId), Status(400))
       ELSE Accept(p, Handler("list_await", ListRequest(userId), 0,
                              getEntriesByUserId(entries, userId.s)))
    /\ UNCHANGED <<entries, currentId, uuidCount, tokenOwner, assignedIds, deletedIds, shareRun>>

GetEntriesRespond(p) ==
    /\ handler[p].pc = "list_await"
    /\ Answer(p, handler[p].req, Entries(200, handler[p].entry))
    /\ UNCHANGED <<entries, currentId, uuidCount, tokenOwner, assignedIds, deletedIds, shareRun>>

(***************************************************************************)
(* GET /api/entries/:id                                                    *)
(***************************************************************************)
\* the part shared by the four :id routes: parseInt, isNaN, storage.getEntry
LookupStart(p, route, id, next) ==
    /\ Free(p)
    /\ LET entryId == parseInt(id)
       IN  IF isNaN(entryId)
           THEN Answer(p, IdRequest(route, id), Status(400))
           ELSE Accept(p, Handler(next, IdRequest(route, id), entryId.n,
                                  getEntry(entries, entryId.n)))

GetEntryStart(p, id) ==
    /\ LookupStart(p, "get", id, "get_await")
    /\ UNCHANGED <<entries, currentId, uuidCount, tokenOwner, assignedIds, deletedIds, shareRun>>

GetEntryRespond(p) ==
    /\ handler[p].pc = "get_await"
    /\ IF handler[p].entry = <<>>
       THEN Answer(p, handler[p].req, Status(404))
       ELSE Answer(p, handler[p].req, Entries(200, handler[p].entry))
    /\ UNCHANGED <<entries, currentId, uuidCount, tokenOwner, assignedIds, deletedIds, shareRun>>

(***************************************************************************)
(* POST /api/entries.  storage.createEntry has no await of its own: its    *)
(* body runs when the route calls it, the route resumes afterwards.        *)
(***************************************************************************)
CreateStart(p, body, now, maxId) ==
    /\ Free(p)
    /\ currentId <= maxId
    /\ LET created == createEntry(entries, currentId, EnsureCaption(body), now)
       IN  IF ~Truthy(body.userId) \/ ~insertEntrySchema(body)
           THEN /\ Answer(p, CreateRequest(body), Status(400))
                /\ UNCHANGED <<entries, currentId, assignedIds, shareRun>>
           ELSE /\ entries' = created.entries
                /\ currentId' = created.currentId
                /\ assignedIds' = Append(assignedIds, created.newEntry.id)
                /\ shareRun' = Append(shareRun, <<>>)
                /\ Accept(p, Handler("create_await", CreateRequest(body),
                                      created.newEntry.id, <<created.newEntry>>))
    /\ UNCHANGED <<uuidCount, tokenOwner, deletedIds>>

CreateRespond(p) ==
    /\ handler[p].pc = "create_await"
    /\ Answer(p, handler[p].req, Entries(201, handler[p].entry))
    /\ UNCHANGED <<entries, currentId, uuidCount, tokenOwner, assignedIds, deletedIds, shareRun>>

(***************************************************************************)
(* DELETE /api/entries/:id                                                 *)
(***************************************************************************)
DeleteStart(p, id) ==
    /\ LookupStart(p, "delete", id, "delete_check")
    /\ UNCHANGED <<entries, currentId, uuidCount, tokenOwner, assignedIds, deletedIds, shareRun>>

DeleteCheck(p) ==
    /\ handler[p].pc = "delete_check"
    /\ IF handler[p].entry = <<>>
       THEN /\ Answer(p, handler[p].req, Status(404))
            /\ UNCHANGED entries
       ELSE /\ entries' = deleteEntry(entries, handler[p].entryId)
            /\ Await(p, [handler[p] EXCEPT !.pc = "delete_await", !.entry = <<>>])
    /\ UNCHANGED <<currentId, uuidCount, tokenOwner, assignedIds, deletedIds, shareRun>>

DeleteRespond(p) ==
    /\ handler[p].pc = "delete_await"
    /\ Answer(p, handler[p].req, Status(200))
    /\ deletedIds' = Append(deletedIds, handler[p].entryId)
    /\ UNCHANGED <<entries, currentId, uuidCount, tokenOwner, assignedIds, shareRun>>

(***************************************************************************)
(* POST /api/entries/:id/share                                             *)
(***************************************************************************)
\* the share handlers that have not yet decided whether to call uuidv4()
SharesPending == {q \in Handlers : handler[q].pc = "share_check"}

ShareStart(p, id) ==
    /\ uuidCount + Cardinality(SharesPending) < MaxTokens
    /\ LookupStart(p, "share", id, "share_check")
    /\ UNCHANGED <<entries, currentId, uuidCount, tokenOwner, assignedIds, deletedIds, shareRun>>

\* mutant of ChooseShareId: a new token at every share request
ChooseShareIdAlwaysNew(entry, k) == uuidv4(k)

\* const shareId = entry.shareId || uuidv4()
ChooseShareId(entry, k) == OrElse(entry.shareId, uuidv4(k))

ShareCheck(p) ==
    /\ handler[p].pc = "share_check"
    /\ IF handler[p].entry = <<>>
       THEN /\ Answer(p, handler[p].req, Status(404))
            /\ UNCHANGED <<entries, uuidCount, tokenOwner>>
       ELSE LET entry == handler[p].entry[1]
                shareId == ChooseShareId(entry, uuidCount + 1)
                updated == updateEntrySharing(entries, handler[p].entryId,
                                              TRUE, shareId)
            IN  /\ uuidCount' = IF Truthy(entry.shareId) THEN uuidCount
                                ELSE uuidCount + 1
                /\ tokenOwner' = IF Truthy(entry.shareId) THEN tokenOwner
                                 ELSE Append(tokenOwner, handler[p].entryId)
                /\ entries' = updated.entries
                /\ Await(p, [handler[p] EXCEPT !.pc = "share_await",
                                               !.entry = updated.updated])
    /\ UNCHANGED <<currentId, assignedIds, deletedIds, shareRun>>

\* the run of an id after one more share response: its last two shareIds
Shared(run, shareId) ==
    IF run = <<>> THEN <<shareId>> ELSE <<run[Len(run)], shareId>>

SetRun(id, run) ==
    IF id \in 1..Len(shareRun) THEN [shareRun EXCEPT ![id] = run] ELSE shareRun

ShareRespond(p) ==
    /\ handler[p].pc = "share_await"
    /\ IF handler[p].entry = <<>>
       THEN /\ Answer(p, handler[p].req, Status(500))
            /\ UNCHANGED shareRun
       ELSE LET shareId == handler[p].entry[1].shareId
            IN  /\ Answer(p, handler[p].req, ShareLink(200, shareId))
                /\ shareRun' = SetRun(handler[p].entryId,
                                      Shared(RunOf(handler[p].entryId), shareId))
    /\ UNCHANGED <<entries, currentId, uuidCount, tokenOwner, assignedIds, deletedIds>>

(***************************************************************************)
(* POST /api/entries/:id/unshare                                           *)
(***************************************************************************)
UnshareStart(p, id) ==
    /\ LookupStart(p, "unshare", id, "unshare_check")
    /\ UNCHANGED <<entries, currentId, uuidCount, tokenOwner, assignedIds, deletedIds, shareRun>>

UnshareCheck(p) ==
    /\ handler[p].pc = "unshare_check"
    /\ IF handler[p].entry = <<>>
       THEN /\ Answer(p, handler[p].req, Status(404))
            /\ UNCHANGED entries
       ELSE LET updated == updateEntrySharing(entries, handler[p].entryId,
                                              FALSE, Undefined)
            IN  /\ entries' = updated.entries
                /\ Await(p, [handler[p] EXCEPT !.pc = "unshare_await",
                                               !.entry = updated.updated])
    /\ UNCHANGED <<currentId, uuidCount, tokenOwner, assignedIds, deletedIds, shareRun>>

UnshareRespond(p) ==
    /\ handler[p].pc = "unshare_await"
    /\ IF handler[p].entry = <<>>
       THEN /\ Answer(p, handler[p].req, Status(500))
            /\ UNCHANGED shareRun
       ELSE /\ Answer(p, handler[p].req, Status(200))
            /\ shareRun' = SetRun(handler[p].entryId, <<>>)
    /\ UNCHANGED <<entries, currentId, uuidCount, tokenOwner, assignedIds, deletedIds>>

(***************************************************************************)
(* Inputs.                                                                 *)
(***************************************************************************)
Body(userId, caption, captionText, imageUrl, location, screenInfo) ==
    [userId |-> userId, caption |-> caption, captionText |-> captionText,
     imageUrl |-> imageUrl, location |-> location, screenInfo |-> screenInfo,
     shareId |-> Undefined, isShared |-> Undefined]

Portrait == ScreenInfo(Num(1080), Num(1920), Str("Portrait"))

\* the submission of the spec's scenario: no caption, no captionText, no image
ScenarioBody ==
    Body(Str("u1"), Undefined, Undefined, Undefined, NoLocation, Portrait)

\* submissions with every required field present and non-empty
FullBodies ==
    {Body(Str("u1"), Str("Fuji"), Undefined, Str("img-1"),
          Location(Num(35), Num(138)), Portrait),
     Body(Str("u2"), Str("Home"), Str("other"), Str("img-2"), NoLocation,
          ScreenInfo(Num(0), Num(600), Str("Landscape"))),
     Body(Str("u2"), Str("Lake"), Undefined, Str("img-3"), NullLocation,
          ScreenInfo(Num(800), Num(600), Str("")))}

\* submissions that lean on the defaults, and submissions that are refused
OtherBodies ==
    {ScenarioBody,
     Body(Str("u1"), Undefined, Str("text"), Str("img-1"), NoLocation, Portrait),
     Body(Str("u1"), Str(""), Str("text"), Str(""), NoLocation, Portrait),
     Body(Str("u1"), Str(""), Undefined, Str("img-1"), NoLocation, Portrait),
     Body(Undefined, Str("Fuji"), Undefined, Str("img-1"), NoLocation, Portrait),
     Body(Str(""), Str("Fuji"), Undefined, Str("img-1"), NoLocation, Portrait),
     Body(Str("u1"), Str("Fuji"), Undefined, Str("img-1"), NoLocation,
          NoScreenInfo),
     Body(Str("u1"), Num(7), Undefined, Str("img-1"), NoLocation, Portrait)}

\* submissions whose location or screenInfo is not of the declared shape:
\* a string, an object without lng, an object whose lat is no number
MistypedBodies ==
    {Body(Str("u1"), Str("Fuji"), Undefined, Str("img-1"), Str("here"),
          Portrait),
     Body(Str("u1"), Str("Fuji"), Undefined, Str("img-1"),
          Location(Num(35), Undefined), Portrait),
     Body(Str("u1"), Str("Fuji"), Undefined, Str("img-1"),
          Location(Str("north"), Num(138)), Portrait),
     Body(Str("u1"), Str("Fuji"), Undefined, Str("img-1"), NoLocation,
          Str("wide"))}

\* submissions that carry the sharing fields the schema keeps: a shareId of
\* the caller's choice, isShared true
SharingBodies ==
    {[Body(Str("u1"), Str("Fuji"), Undefined, Str("img-1"), NoLocation,
           Portrait) EXCEPT !.shareId = Str("chosen"), !.isShared = Bool(TRUE)],
     [Body(Str("u1"), Str("Fuji"), Undefined, Str("img-1"), NoLocation,
           Portrait) EXCEPT !.isShared = Bool(TRUE)]}

ApiBodies ==
    FullBodies \cup OtherBodies \cup MistypedBodies \cup SharingBodies

\* one submission per user
CoreBodies ==
    {Body(Str("u1"), Str("Fuji"), Undefined, Str("img-1"),
          Location(Num(35), Num(138)), Portrait),
     Body(Str("u2"), Str("Home"), Undefined, Str("img-2"), NoLocation, Portrait)}

\* the submission of the interleaving runs
AsyncBodies ==
    {Body(Str("u1"), Str("Fuji"), Undefined, Str("img-1"), NoLocation, Portrait)}

\* the ?userId= values: absent, two users
UserIds == {Undefined, Str("u1"), Str("u2")}

\* the readings of new Date(), in milliseconds: two requests may read the
\* same millisecond, and the wall clock may step back between two requests
Times == {0, 1}

\* the decimal text of a small id
IdText(n) == <<HexDigits[n + 1]>>

\* the ids up to n as path parameters
IdParams(n) == {IdText(i) : i \in 1..n}

\* path parameters that are no positive integer, or not only one
OddIdParams ==
    {<<"a", "b", "c">>, <<"0">>, <<"-", "1">>, <<"1", "a", "b", "c">>,
     <<"1", ".", "5">>, <<" ", "1">>, <<"0", "x", "1">>}

(***************************************************************************)
(* Specifications.                                                         *)
(***************************************************************************)
\* one step of the handler in slot p: a request arrives and runs to its
\* first await, or a handler resumes after an await
Step(p, bodies, users, ids, times, maxId) ==
    \/ \E userId \in users : GetEntriesStart(p, userId)
    \/ GetEntriesRespond(p)
    \/ \E id \in ids : GetEntryStart(p, id)
    \/ GetEntryRespond(p)
    \/ \E body \in bodies, now \in times : CreateStart(p, body, now, maxId)
    \/ CreateRespond(p)
    \/ \E id \in ids : DeleteStart(p, id)
    \/ DeleteCheck(p)
    \/ DeleteRespond(p)
    \/ \E id \in ids : ShareStart(p, id)
    \/ ShareCheck(p)
    \/ ShareRespond(p)
    \/ \E id \in ids : UnshareStart(p, id)
    \/ UnshareCheck(p)
    \/ UnshareRespond(p)

\* one request at a time, each handler running to its response before the
\* next request arrives
Next ==
    Step(1, CoreBodies, UserIds, IdParams(MaxId) \cup {<<"a", "b", "c">>},
         Times, MaxId)

Spec == Init /\ [][Next]_vars

\* one request at a time, over the wide range of submissions and parameters
NextInput ==
    Step(1, ApiBodies, {Str(""), Str("u1")},
         IdParams(MaxInputId + 1) \cup OddIdParams, {0}, MaxInputId)

SpecInput == Init /\ [][NextInput]_vars

\* requests in flight together, their handlers interleaving at the awaits
NextAsync ==
    \E p \in Handlers :
        Step(p, AsyncBodies, {Str("u1")}, IdParams(MaxAsyncId), {0}, MaxAsyncId)

SpecAsync == Init /\ [][NextAsync]_vars

\* one step of the handler in slot p of the list, get, create and delete
\* routes
CreatesStep(p, bodies, users, ids, times, maxId) ==
    \/ \E userId \in users : GetEntriesStart(p, userId)
    \/ GetEntriesRespond(p)
    \/ \E id \in ids : GetEntryStart(p, id)
    \/ GetEntryRespond(p)
    \/ \E body \in bodies, now \in times : CreateStart(p, body, now, maxId)
    \/ CreateRespond(p)
    \/ \E id \in ids : DeleteStart(p, id)
    \/ DeleteCheck(p)
    \/ DeleteRespond(p)

\* create requests in flight together, and with reads and deletes
NextCreates ==
    \E p \in Handlers :
        CreatesStep(p, AsyncBodies, {Str("u1")}, IdParams(MaxAsyncId), {0},
                    MaxAsyncId)

SpecCreates == Init /\ [][NextCreates]_vars

\* one step of the handler in slot p of the create, delete, share and
\* unshare routes
RaceStep(p, bodies, ids, times, maxId) ==
    \/ \E body \in bodies, now \in times : CreateStart(p, body, now, maxId)
    \/ CreateRespond(p)
    \/ \E id \in ids : DeleteStart(p, id)
    \/ DeleteCheck(p)
    \/ DeleteRespond(p)
    \/ \E id \in ids : ShareStart(p, id)
    \/ ShareCheck(p)
    \/ ShareRespond(p)
    \/ \E id \in ids : UnshareStart(p, id)
    \/ UnshareCheck(p)
    \/ UnshareRespond(p)

\* delete, share and unshare requests on the same ids in flight together
NextRace ==
    \E p \in Handlers :
        RaceStep(p, AsyncBodies, IdParams(MaxRaceId), {0}, MaxRaceId)

SpecRace == Init /\ [][NextRace]_vars

(***************************************************************************)
(* requireAuth, the middleware registerRoutes defines.  The routes of      *)
(* /api/entries are registered with their handlers alone, so no handler    *)
(* of the model consults it.  A header value is a sequence of              *)
(* one-character strings.                                                  *)
(***************************************************************************)
HeaderText(chars) == [t |-> "string", chars |-> chars]

\* the place of the first space of a text, 0 if it has none
FirstSpace(chars) ==
    IF \E i \in 1..Len(chars) : chars[i] = " "
    THEN CHOOSE i \in 1..Len(chars) :
            chars[i] = " " /\ \A j \in 1..(i - 1) : chars[j] # " "
    ELSE 0

\* authHeader.split(' ')[1]
SecondWord(chars) ==
    LET i == FirstSpace(chars)
        rest == SubSeq(chars, i + 1, Len(chars))
        j == FirstSpace(rest)
    IN  IF i = 0 THEN Undefined
        ELSE HeaderText(IF j = 0 THEN rest ELSE SubSeq(rest, 1, j - 1))

\* the tokens supabase.auth.getUser resolves with a user for
ValidTokens == {<<"g">>}

\* the response requireAuth sends, NoResponse when it calls next()
requireAuth(authHeader) ==
    IF authHeader = Undefined \/ authHeader.chars = <<>> THEN Status(401)
    ELSE LET token == SecondWord(authHeader.chars)
         IN  IF token = Undefined \/ token.chars = <<>> THEN Status(401)
             ELSE IF token.chars \notin ValidTokens THEN Status(401)
             ELSE NoResponse

\* the Authorization headers of requests: none, empty, a scheme alone, a
\* scheme and an empty token, an unknown token, a valid token
Headers ==
    {Undefined, HeaderText(<<>>), HeaderText(<<"B">>),
     HeaderText(<<"B", " ">>), HeaderText(<<"B", " ", "x">>),
     HeaderText(<<"B", " ", "g">>)}

\* the requests that arrive from now on carry this Authorization header
RequestHeaders(authHeader) ==
    /\ \A p \in Handlers : Free(p)
    /\ authorization # authHeader
    /\ authorization' = authHeader
    /\ UNCHANGED <<serverVars, browserVars, path, auth, storedSession,
                   sessionLookup, committed, lastNavigation, queries,
                   signingOut, modals>>

\* one request at a time, with and without a bearer token
NextHeaders ==
    \/ \E authHeader \in Headers : RequestHeaders(authHeader)
    \/ Step(1, AsyncBodies, {Str("u1")}, IdParams(MaxInputId), {0}, MaxInputId)

SpecHeaders == Init /\ [][NextHeaders]_vars

(***************************************************************************)
(* The Upload page (client/src/pages: Upload).  A step is one event        *)
(* handler or one continuation after an await, together with the render    *)
(* and the effects React runs for the state it set.  A state setter called *)
(* after the page was unmounted changes nothing.                           *)
(***************************************************************************)
\* what the page renders: the camera, the file picker, the preview
CameraShown == mounted /\ upload.showCamera
PickerShown == mounted /\ ~upload.showCamera /\ ~Truthy(upload.previewUrl)
PreviewShown == mounted /\ Truthy(upload.previewUrl)

\* stream.getTracks().forEach(track => track.stop()), guarded by if (stream)
StopTracks(trk, stream) ==
    IF Truthy(stream) THEN [trk EXCEPT ![stream.id] = FALSE] ELSE trk

\* the cleanup of the effect on [stream]: React runs it with the stream of
\* the render before, when a render has another stream and at unmount
CleanupStream(trk, next) ==
    IF mounted /\ upload.stream # next THEN StopTracks(trk, upload.stream)
    ELSE trk

\* the state setters of a mounted page; nothing after unmount
SetState(next) == upload' = IF mounted THEN next ELSE upload

handleImageSelect(name) ==
    /\ PickerShown
    /\ SetState([upload EXCEPT !.file = File(name),
                                !.previewUrl = ObjectUrl(File(name)),
                                !.showCamera = FALSE])
    /\ UNCHANGED <<serverVars, appVars, mounted, cameraRequests, tracks, captures,
                   submits, posted, toast, image>>

\* mutant of removeImage: the preview is cleared and the file is kept
removeImageKeepsFile ==
    /\ PreviewShown
    /\ SetState([upload EXCEPT !.previewUrl = Null])
    /\ UNCHANGED <<serverVars, appVars, mounted, cameraRequests, tracks, captures,
                   submits, posted, toast, image>>

removeImage ==
    /\ PreviewShown
    /\ SetState([upload EXCEPT !.previewUrl = Null, !.file = Null])
    /\ UNCHANGED <<serverVars, appVars, mounted, cameraRequests, tracks, captures,
                   submits, posted, toast, image>>

\* getLocation up to the call of getCurrentPosition
getLocation ==
    /\ mounted
    /\ ~Truthy(upload.location) /\ ~upload.isGettingLocation
    /\ SetState([upload EXCEPT !.isGettingLocation = TRUE])
    /\ UNCHANGED <<serverVars, appVars, mounted, cameraRequests, tracks, captures,
                   submits, posted, toast, image>>

\* the success callback of getCurrentPosition
LocationFound(newLocation) ==
    /\ mounted /\ upload.isGettingLocation
    /\ SetState([upload EXCEPT !.location = newLocation,
                                !.isGettingLocation = FALSE])
    /\ UNCHANGED <<serverVars, appVars, mounted, cameraRequests, tracks, captures,
                   submits, posted, toast, image>>

\* the error callback of getCurrentPosition
LocationFailed ==
    /\ mounted /\ upload.isGettingLocation
    /\ SetState([upload EXCEPT !.isGettingLocation = FALSE])
    /\ toast' = "Location Error"
    /\ UNCHANGED <<serverVars, appVars, mounted, cameraRequests, tracks, captures,
                   submits, posted, image>>

\* the caption field of the form
TypeCaption(text) ==
    /\ mounted
    /\ upload.captionText # text
    /\ SetState([upload EXCEPT !.captionText = text])
    /\ UNCHANGED <<serverVars, appVars, mounted, cameraRequests, tracks, captures,
                   submits, posted, toast, image>>

\* openCamera up to await getUserMedia
openCamera ==
    /\ PickerShown
    /\ cameraRequests + Len(tracks) < MaxStreams
    /\ cameraRequests' = cameraRequests + 1
    /\ UNCHANGED <<serverVars, appVars, upload, mounted, tracks, captures, submits,
                   posted, toast, image>>

\* openCamera after the await, getUserMedia having resolved with a stream;
\* videoRef.current is the video element of the render before, which has
\* one only when the camera was shown already
CameraGranted ==
    /\ cameraRequests > 0
    /\ cameraRequests' = cameraRequests - 1
    /\ LET mediaStream == MediaStream(Len(tracks) + 1)
       IN  /\ SetState([upload EXCEPT !.stream = mediaStream,
                                       !.showCamera = TRUE,
                                       !.srcObject = IF CameraShown
                                                     THEN mediaStream
                                                     ELSE upload.srcObject])
           /\ tracks' = Append(CleanupStream(tracks, mediaStream), TRUE)
    /\ UNCHANGED <<serverVars, appVars, mounted, captures, submits, posted, toast,
                   image>>

\* openCamera after the await, getUserMedia having rejected
CameraDenied ==
    /\ cameraRequests > 0
    /\ cameraRequests' = cameraRequests - 1
    /\ toast' = "Camera Error"
    /\ UNCHANGED <<serverVars, appVars, upload, mounted, tracks, captures, submits,
                   posted, image>>

\* capturePhoto up to canvas.toBlob: the callback holds this render's
\* stream; the canvas has the size of the video, which is 0 by 0 as long as
\* the video element has no srcObject
capturePhoto ==
    /\ CameraShown
    /\ Len(captures) < MaxCaptures
    /\ captures' = Append(captures, [stream |-> upload.stream,
                                     pixels |-> Truthy(upload.srcObject)])
    /\ UNCHANGED <<serverVars, appVars, upload, mounted, cameraRequests, tracks,
                   submits, posted, toast, image>>

\* the callback of canvas.toBlob, with a blob or with null; a canvas
\* without pixels gives null
CaptureBlob(blob) ==
    /\ captures # <<>>
    /\ blob => Head(captures).pixels
    /\ captures' = Tail(captures)
    /\ LET stream == Head(captures).stream
           next == IF Truthy(stream) THEN Null ELSE upload.stream
       IN  IF blob
           THEN /\ SetState([upload EXCEPT
                                !.file = File("camera-capture.jpg"),
                                !.previewUrl = ObjectUrl(File("camera-capture.jpg")),
                                !.showCamera = FALSE,
                                !.srcObject = Null,
                                !.stream = next])
                /\ tracks' = CleanupStream(StopTracks(tracks, stream), next)
           ELSE UNCHANGED <<upload, tracks>>
    /\ UNCHANGED <<serverVars, appVars, mounted, cameraRequests, submits, posted,
                   toast, image>>

closeCamera ==
    /\ CameraShown
    /\ SetState([upload EXCEPT !.stream = Null, !.showCamera = FALSE,
                                !.srcObject = Null])
    /\ tracks' = CleanupStream(StopTracks(tracks, upload.stream), Null)
    /\ UNCHANGED <<serverVars, appVars, mounted, cameraRequests, captures, submits,
                   posted, toast, image>>

\* createEntryMutation.isPending: the mutation issued last is not settled
IsPending == posted # <<>> /\ posted[Len(posted)].status = "pending"

\* uploadFormSchema: captionText is a string of 3 characters at least
uploadFormSchema(data) == Len(data.captionText) >= 3

\* form.handleSubmit(onSubmit) up to await uploadImage; the Save button is
\* disabled while the mutation is pending
SubmitStart ==
    /\ mounted /\ ~IsPending
    /\ Len(submits) + Len(posted) < MaxSubmits
    /\ uploadFormSchema(upload)
    /\ IF ~Truthy(upload.file)
       THEN /\ toast' = "Missing Image"
            /\ UNCHANGED submits
       ELSE /\ toast' = "Uploading..."
            /\ submits' = Append(submits, [file |-> upload.file,
                                           location |-> upload.location,
                                           captionText |-> upload.captionText])
    /\ UNCHANGED <<serverVars, appVars, upload, mounted, cameraRequests, tracks,
                   captures, posted, image>>

\* mutant of UploadSucceeded: the result of uploadImage is not tested
UploadSucceededAlways(imageUrl) == TRUE

\* the test of onSubmit on the result of uploadImage: if (!imageUrl) return
UploadSucceeded(imageUrl) == Truthy(imageUrl)

\* the sequence without its i-th element
RemoveAt(seq, i) == SubSeq(seq, 1, i - 1) \o SubSeq(seq, i + 1, Len(seq))

\* onSubmit after await uploadImage, for the i-th of the calls in flight:
\* uploadImage resolved with a data URL, or with null after an error
UploadImageDone(i, ok) ==
    /\ i \in 1..Len(submits)
    /\ submits' = RemoveAt(submits, i)
    /\ LET held == submits[i]
           imageUrl == IF ok THEN Str("data:image/jpeg;base64," \o held.file.name)
                       ELSE Null
           entryData == Body(Str("u1"), Str(held.captionText),
                             Str(held.captionText), imageUrl, held.location,
                             Portrait)
       IN  IF ~UploadSucceeded(imageUrl)
           THEN /\ toast' = "Upload Error"
                /\ UNCHANGED posted
           ELSE /\ posted' = Append(posted, [entryData |-> entryData,
                                             status |-> "pending"])
                /\ UNCHANGED toast
    /\ UNCHANGED <<serverVars, appVars, upload, mounted, cameraRequests, tracks,
                   captures, image>>

\* the routes of the router, and those whose page is for a logged-in user
Paths == {"/", "/dashboard", "/upload", "/entry/1"}
Protected == {"/dashboard", "/upload", "/entry/1"}

\* the effect of Dashboard, Upload and ViewEntry on [user, navigate]:
\* if (!user) navigate('/'); the location after a page was rendered
RedirectEffect(p, user) ==
    IF p \in Protected /\ ~Truthy(user) THEN "/" ELSE p

\* enabled of the entry query of Dashboard and of ViewEntry
QueryEnabled(p, user) == p \in {"/dashboard", "/entry/1"} /\ Truthy(user)

\* the page of a location is rendered with a user and its effects run: the
\* redirect, the entry query; a page that goes is unmounted, with the
\* cleanup of the Upload page's stream effect and the state of the modals,
\* and the Upload page that comes starts from its initial state
Show(to, user, how) ==
    LET shown == RedirectEffect(to, user)
    IN  /\ path' = shown
        /\ lastNavigation' = IF shown # to THEN "redirect"
                             ELSE IF to # path THEN how ELSE lastNavigation
        /\ queries' = IF QueryEnabled(to, user)
                      THEN queries \cup {[page |-> to, user |-> user]}
                      ELSE queries
        /\ modals' = IF shown # path THEN InitModals ELSE modals
        /\ mounted' = IF shown # path THEN shown = "/upload" ELSE mounted
        /\ upload' = IF shown # path /\ shown = "/upload" THEN FreshUpload
                     ELSE upload
        /\ tracks' = IF shown # path THEN CleanupStream(tracks, Null)
                     ELSE tracks

\* the i-th request of createEntryMutation settles: onSuccess navigates to
\* the dashboard, which unmounts the page; onError shows a toast
MutationSettled(i, ok) ==
    /\ i \in 1..Len(posted)
    /\ posted[i].status = "pending"
    /\ posted' = [posted EXCEPT ![i].status = IF ok THEN "success" ELSE "error"]
    /\ toast' = IF ok THEN "Success!" ELSE "Error"
    /\ IF ok THEN Show("/dashboard", auth.user, "link")
       ELSE UNCHANGED <<path, lastNavigation, queries, modals, mounted,
                        upload, tracks>>
    /\ UNCHANGED <<serverVars, authorization, auth, storedSession,
                   sessionLookup, committed, signingOut, cameraRequests,
                   captures, submits, image>>

\* the Cancel button and the back button: navigate('/dashboard')
Leave ==
    /\ mounted
    /\ Show("/dashboard", auth.user, "link")
    /\ UNCHANGED <<serverVars, authorization, auth, storedSession,
                   sessionLookup, committed, signingOut, cameraRequests,
                   captures, submits, posted, toast, image>>

\* what the user may pick, find and type
PickedFiles == {"photo.png"}
Positions == {Location(Num(35), Num(138))}
Captions == {"", "Fuji"}

NextUpload ==
    \/ \E name \in PickedFiles : handleImageSelect(name)
    \/ removeImage
    \/ getLocation
    \/ \E newLocation \in Positions : LocationFound(newLocation)
    \/ LocationFailed
    \/ \E text \in Captions : TypeCaption(text)
    \/ openCamera
    \/ CameraGranted
    \/ CameraDenied
    \/ capturePhoto
    \/ \E blob \in BOOLEAN : CaptureBlob(blob)
    \/ closeCamera
    \/ SubmitStart
    \/ \E i \in 1..MaxSubmits, ok \in BOOLEAN : UploadImageDone(i, ok)
    \/ \E i \in 1..MaxSubmits, ok \in BOOLEAN : MutationSettled(i, ok)
    \/ Leave

SpecUpload == Init /\ [][NextUpload]_vars

(***************************************************************************)
(* resizeAndCompressImage (client/src/lib/supabase.ts).  The sizes are     *)
(* whole pixels: a canvas side is an unsigned long, so the quotient the    *)
(* code assigns to canvas.height loses its fraction.                       *)
(***************************************************************************)
\* the maxWidth uploadImage passes
MaxDimension == 800

\* the canvas size for an image of width by height
ResizedDimensions(width, height, maxWidth) ==
    IF width > maxWidth
    THEN [width |-> maxWidth, height |-> (height * maxWidth) \div width]
    ELSE [width |-> width, height |-> height]

\* img.onload of resizeAndCompressImage, called by uploadImage
resizeAndCompressImage ==
    /\ image.phase = "decoded"
    /\ LET canvas == ResizedDimensions(image.width, image.height, MaxDimension)
       IN  image' = [phase |-> "drawn", width |-> canvas.width,
                     height |-> canvas.height,
                     from |-> [width |-> image.width, height |-> image.height]]
    /\ UNCHANGED <<serverVars, appVars, upload, mounted, cameraRequests, tracks,
                   captures, submits, posted, toast>>

\* the sides of the images that are normalized
ImageSides == {1, 799, 801} \cup {200 * k : k \in 1..MaxImageSide}

InitImage ==
    /\ InitServer
    /\ InitUpload
    /\ InitApp
    /\ image \in {[phase |-> "decoded", width |-> w, height |-> h] :
                     w \in ImageSides, h \in ImageSides}

NextImage == resizeAndCompressImage

SpecImage == InitImage /\ [][NextImage]_vars

(***************************************************************************)
(* The app: AuthProvider, the router with its pages, and the auth modals   *)
(* of Header and Landing.  A step is one event handler, one continuation   *)
(* after an await or one callback, together with the render and the        *)
(* effects React runs for the state it set.                                *)
(***************************************************************************)
\* what no step of the app touches
OutsideApp ==
    <<serverVars, authorization, cameraRequests, captures, submits, posted,
      image>>

\* the app as loaded at a location, before its first render is committed:
\* AuthProvider has user null and isLoading true, the authentication
\* service holds a session for the browser or none
InitLoad ==
    /\ InitServer
    /\ upload = FreshUpload
    /\ mounted = FALSE
    /\ cameraRequests = 0
    /\ tracks = <<>>
    /\ captures = <<>>
    /\ submits = <<>>
    /\ posted = <<>>
    /\ toast = ""
    /\ image = NoImage
    /\ authorization = Undefined
    /\ path \in Paths
    /\ auth = [user |-> Null, isLoading |-> TRUE]
    /\ storedSession \in {Null, SessionUser}
    /\ sessionLookup = FALSE
    /\ committed = FALSE
    /\ lastNavigation = "load"
    /\ queries = {}
    /\ signingOut = "none"
    /\ modals = InitModals

\* the first commit: the effects of the page run with the user of the
\* first render, the effect of AuthProvider calls getSession()
FirstCommit ==
    /\ ~committed
    /\ committed' = TRUE
    /\ sessionLookup' = TRUE
    /\ Show(path, auth.user, "load")
    /\ UNCHANGED <<auth, storedSession, signingOut, toast, OutsideApp>>

\* getSession of AuthProvider after its await
GetSessionResolved ==
    /\ sessionLookup
    /\ sessionLookup' = FALSE
    /\ auth' = [user |-> storedSession, isLoading |-> FALSE]
    /\ Show(path, storedSession, "link")
    /\ UNCHANGED <<storedSession, committed, signingOut, toast, OutsideApp>>

\* the callback of supabase.auth.onAuthStateChange, for a session the
\* service reports: a sign-in or the end of the session elsewhere
onAuthStateChange(session) ==
    /\ committed
    /\ storedSession' = session
    /\ auth' = [user |-> session, isLoading |-> FALSE]
    /\ Show(path, session, "link")
    /\ UNCHANGED <<sessionLookup, committed, signingOut, toast, OutsideApp>>

\* the links a page shows to a logged-in user: the logo, New Entry and
\* Your Entries of Header, the links of Dashboard and of ViewEntry (the
\* Upload page's way to the dashboard is Leave)
LinkTargets(p) ==
    CASE p = "/" -> {"/upload", "/dashboard"}
      [] p = "/dashboard" -> {"/", "/upload", "/entry/1"}
      [] p = "/upload" -> {"/"}
      [] p = "/entry/1" -> {"/", "/dashboard"}

\* a click on a link
Navigate(to) ==
    /\ committed
    /\ Truthy(auth.user)
    /\ to \in LinkTargets(path)
    /\ Show(to, auth.user, "link")
    /\ UNCHANGED <<auth, storedSession, sessionLookup, committed, signingOut,
                   toast, OutsideApp>>

\* handleSignOut of Header up to the end of signOut(): the service drops
\* the session and reports it to the callback of onAuthStateChange
handleSignOut ==
    /\ committed
    /\ Truthy(auth.user)
    /\ path \in {"/", "/dashboard"}
    /\ signingOut = "none"
    /\ signingOut' = path
    /\ storedSession' = Null
    /\ auth' = [user |-> Null, isLoading |-> FALSE]
    /\ Show(path, Null, "link")
    /\ UNCHANGED <<sessionLookup, committed, toast, OutsideApp>>

\* handleSignOut after its await: window.location.href = '/' loads the app
\* anew unless the location its render had was '/'
SignedOut ==
    /\ signingOut # "none"
    /\ signingOut' = "none"
    /\ IF signingOut # "/"
       THEN /\ path' = "/"
            /\ lastNavigation' = "reload"
            /\ auth' = [user |-> Null, isLoading |-> TRUE]
            /\ sessionLookup' = FALSE
            /\ committed' = FALSE
            /\ modals' = InitModals
            /\ mounted' = FALSE
            /\ tracks' = CleanupStream(tracks, Null)
       ELSE UNCHANGED <<path, lastNavigation, auth, sessionLookup, committed,
                        modals, mounted, tracks>>
    /\ UNCHANGED <<storedSession, queries, upload, toast, OutsideApp>>

\* what the steps of the modals leave alone
OutsideModals ==
    <<path, lastNavigation, queries, signingOut, sessionLookup, committed,
      upload, mounted, tracks, OutsideApp>>

\* the Log In and Sign Up buttons of a host are shown: Landing is the page
\* of '/', Header shows its buttons when no user is logged in; an open
\* dialog covers the page
AuthButtonsShown(host) ==
    /\ committed
    /\ path = "/"
    /\ host = "Header" => ~Truthy(auth.user)
    /\ \A h \in Hosts : ~modals[h].host.isAuthModalOpen

\* openAuthModal of Header and of Landing
openAuthModal(host, mode) ==
    /\ AuthButtonsShown(host)
    /\ modals' = [modals EXCEPT
                     ![host].host = [isAuthModalOpen |-> TRUE, authMode |-> mode]]
    /\ UNCHANGED <<auth, storedSession, toast, OutsideModals>>

\* onClose of a host: the X button and onOpenChange of the dialog
onClose(host) ==
    /\ modals[host].host.isAuthModalOpen
    /\ modals' = [modals EXCEPT ![host].host.isAuthModalOpen = FALSE]
    /\ UNCHANGED <<auth, storedSession, toast, OutsideModals>>

\* toggleAuthMode of AuthModal; its button is disabled while isLoading
toggleAuthMode(host) ==
    /\ modals[host].host.isAuthModalOpen
    /\ ~modals[host].modal.isLoading
    /\ modals' = [modals EXCEPT
                     ![host].modal.authMode =
                         IF @ = "login" THEN "signup" ELSE "login"]
    /\ UNCHANGED <<auth, storedSession, toast, OutsideModals>>

\* onSubmit of AuthModal up to await signIn or await signUp; the submit
\* button is disabled while isLoading
AuthSubmitStart(host) ==
    /\ modals[host].host.isAuthModalOpen
    /\ ~modals[host].modal.isLoading
    /\ modals' = [modals EXCEPT ![host].modal.isLoading = TRUE,
                                ![host].submitted = modals[host].modal.authMode]
    /\ UNCHANGED <<auth, storedSession, toast, OutsideModals>>

\* onSubmit of AuthModal after its await, with the result of signIn or
\* signUp: success, "unconfirmed" (success of signUp with the email to
\* confirm, failure of signIn for an email not confirmed) or failure; a
\* signIn that succeeds has made the session, which the callback of
\* onAuthStateChange has taken up
AuthSubmitSettled(host, result) ==
    /\ modals[host].submitted # "none"
    /\ LET login == modals[host].submitted = "login"
           signedIn == login /\ result = "success"
           signedUp == ~login /\ result # "failure"
       IN  /\ toast' = CASE signedIn -> "Success!"
                         [] login /\ result = "unconfirmed" -> "Email not confirmed"
                         [] login /\ result = "failure" -> "Login failed"
                         [] ~login /\ result = "success" -> "Account created!"
                         [] ~login /\ result = "unconfirmed" -> "Verification email sent"
                         [] ~login /\ result = "failure" -> "Signup failed"
           /\ modals' = [modals EXCEPT
                 ![host].submitted = "none",
                 ![host].modal.isLoading = FALSE,
                 ![host].modal.authMode = IF signedUp THEN "login" ELSE @,
                 ![host].host.isAuthModalOpen = IF signedIn THEN FALSE ELSE @]
           /\ storedSession' = IF signedIn THEN SessionUser ELSE storedSession
           /\ auth' = IF signedIn THEN [user |-> SessionUser, isLoading |-> FALSE]
                      ELSE auth
    /\ UNCHANGED OutsideModals

NextApp ==
    \/ FirstCommit
    \/ GetSessionResolved
    \/ \E session \in {Null, SessionUser} : onAuthStateChange(session)
    \/ \E to \in Paths : Navigate(to)
    \/ Leave
    \/ handleSignOut
    \/ SignedOut
    \/ \E host \in Hosts, mode \in {"login", "signup"} : openAuthModal(host, mode)
    \/ \E host \in Hosts : onClose(host)
    \/ \E host \in Hosts : toggleAuthMode(host)
    \/ \E host \in Hosts : AuthSubmitStart(host)
    \/ \E host \in Hosts, result \in {"success", "unconfirmed", "failure"} :
          AuthSubmitSettled(host, result)

SpecApp == InitLoad /\ [][NextApp]_vars

(***************************************************************************)
(* Properties.                                                             *)
(***************************************************************************)
Range(seq) == {seq[i] : i \in 1..Len(seq)}

\* the response sent last answers a request of this route with this status
Answered(route, status) ==
    out.req.route = route /\ out.resp.status = status

\* C1: the ids assigned by successive createEntry calls start at 1, are
\* strictly increasing and never repeat, whatever was deleted in between.
C1_IdsStrictlyIncreasing ==
    /\ assignedIds # <<>> => assignedIds[1] = 1
    /\ \A i, j \in 1..Len(assignedIds) :
          i < j => assignedIds[i] < assignedIds[j]

\* two ids were assigned, the first of them to an entry deleted since
C1_Witness ==
    /\ Len(assignedIds) = 2
    /\ assignedIds[1] \in Range(deletedIds)
    /\ getEntry(entries, assignedIds[2]) # <<>>

\* a submission with non-empty userId, caption and imageUrl, a screenInfo
\* of two numbers and a string, and no location or one of two numbers
ValidSubmission(body) ==
    /\ body.userId.t = "string" /\ Truthy(body.userId)
    /\ body.caption.t = "string" /\ Truthy(body.caption)
    /\ body.imageUrl.t = "string" /\ Truthy(body.imageUrl)
    /\ body.screenInfo.t = "object"
    /\ body.screenInfo.width.t = "number"
    /\ body.screenInfo.height.t = "number"
    /\ body.screenInfo.orientation.t = "string"
    /\ \/ body.location.t \in {"undefined", "null"}
       \/ /\ body.location.t = "object"
          /\ body.location.lat.t = "number"
          /\ body.location.lng.t = "number"

\* an absent location reads back as null
SameLocation(submitted, stored) ==
    IF submitted.t = "object" THEN stored = submitted ELSE stored.t = "null"

\* C2: a valid submission answered 201 reads back, by GET with the id
\* returned, with the caption, imageUrl, location and screenInfo submitted,
\* under an id no other entry holds.
C2_CreateThenGetRoundTrip ==
    (Answered("create", 201) /\ ValidSubmission(out.req.body)) =>
        LET id == out.resp.entries[1].id
            got == getEntry(entries, id)
        IN  /\ got # <<>>
            /\ got[1].caption = out.req.body.caption.s
            /\ got[1].imageUrl = out.req.body.imageUrl.s
            /\ SameLocation(out.req.body.location, got[1].location)
            /\ got[1].screenInfo = out.req.body.screenInfo
            /\ Cardinality({i \in 1..Len(entries) : entries[i].id = id}) = 1

\* the users whose lists the properties look at: one of them owns nothing
ListUsers == {"u1", "u2", "u3"}

\* C3: listEntriesForUser(u) is exactly the stored entries of u, each once,
\* ordered by createdAt descending, and that is what GET /api/entries sends.
C3_ListIsOwnEntriesNewestFirst ==
    /\ \A u \in ListUsers :
          LET list == getEntriesByUserId(entries, u)
              own == {i \in 1..Len(entries) : entries[i].userId = u}
          IN  /\ \A k \in 1..Len(list) :
                    list[k].userId = u /\ list[k] \in Range(entries)
              /\ \A i \in own : \E k \in 1..Len(list) : list[k] = entries[i]
              /\ Len(list) = Cardinality(own)
              /\ \A k, l \in 1..Len(list) :
                    k < l => list[k].createdAt >= list[l].createdAt
    /\ Answered("list", 200) =>
          out.resp.entries = getEntriesByUserId(entries, out.req.userId.s)

\* a list of two entries was sent, in the reverse of the Map's order
C3_Witness ==
    /\ Answered("list", 200)
    /\ Len(out.resp.entries) = 2
    /\ out.resp.entries[1].createdAt > out.resp.entries[2].createdAt
    /\ out.resp.entries[1].id > out.resp.entries[2].id

\* C4: once a DELETE of an id has answered 200, the id has no entry, a GET
\* of it is not answered 200 and no second DELETE of it is answered 200,
\* also after later creations.
C4_DeletedStaysNotFound ==
    /\ \A i, j \in 1..Len(deletedIds) : i # j => deletedIds[i] # deletedIds[j]
    /\ \A id \in Range(deletedIds) :
          /\ getEntry(entries, id) = <<>>
          /\ (out.req.route = "get" /\ parseInt(out.req.id) = Num(id))
                => out.resp.status = 404
          /\ (out.req.route = "delete" /\ parseInt(out.req.id) = Num(id))
                => (out.resp.status = 404
                    \/ (out.resp.status = 200
                        /\ deletedIds[Len(deletedIds)] = id))

\* an id was deleted, another entry was created later, and a second DELETE
\* of the deleted id was answered 404
C4_Witness ==
    /\ Answered("delete", 404)
    /\ parseInt(out.req.id).n \in Range(deletedIds)
    /\ entries # <<>>

\* C5: two share responses for an entry with no unshare response between
\* them carry the same shareId.
C5_ShareTwiceSameShareId ==
    \A id \in 1..Len(shareRun) :
        Len(shareRun[id]) = 2 => shareRun[id][1] = shareRun[id][2]

\* the second share response in a row was just sent
C5_Witness ==
    /\ Answered("share", 200)
    /\ Len(RunOf(parseInt(out.req.id).n)) = 2

\* the entry of this id is in the Map before and after the step
Kept(id) == getEntry(entries, id) # <<>> /\ getEntry(entries', id) # <<>>

\* C6: a shareId that is set is still set after every step that keeps the
\* entry, and the update of an unshare request makes isShared false and
\* leaves shareId as it was.
C6_ShareIdNeverNullAgain ==
    [][/\ \A i \in 1..Len(entries) :
             (Truthy(entries[i].shareId) /\ Kept(entries[i].id))
                => Truthy(getEntry(entries', entries[i].id)[1].shareId)
       /\ \A p \in Handlers :
             (/\ handler[p].pc = "unshare_check"
              /\ handler'[p].pc = "unshare_await"
              /\ Kept(handler[p].entryId))
                => LET before == getEntry(entries, handler[p].entryId)[1]
                       after == getEntry(entries', handler[p].entryId)[1]
                   IN  ~after.isShared /\ after.shareId = before.shareId]_vars

\* an unshare request was answered 200 and its entry still has its shareId
C6_Witness ==
    /\ Answered("unshare", 200)
    /\ \E i \in 1..Len(entries) :
          /\ entries[i].id = parseInt(out.req.id).n
          /\ Truthy(entries[i].shareId)
          /\ ~entries[i].isShared

\* every token uuidv4() may have generated, and one it never generates
ShareTokens == {uuidv4(k) : k \in 1..MaxTokens} \cup {Str("wrong")}

\* C7: getEntryByShareToken(token) returns a stored entry only when that
\* entry's shareId is the token and its isShared is true; a token no entry
\* holds and the token of an entry no longer shared both give not-found.
C7_ShareLookupOnlyWhenShared ==
    \A token \in ShareTokens :
        LET found == getEntryByShareId(entries, token)
        IN  /\ found # <<>> =>
                  /\ found[1] \in Range(entries)
                  /\ found[1].shareId = token
                  /\ found[1].isShared
            /\ (\A i \in 1..Len(entries) :
                   entries[i].shareId = token => ~entries[i].isShared)
                  => found = <<>>

\* an entry holds a token and is no longer shared: its token finds nothing
C7_Witness ==
    \E i \in 1..Len(entries) :
        /\ Truthy(entries[i].shareId)
        /\ ~entries[i].isShared
        /\ getEntryByShareId(entries, entries[i].shareId) = <<>>

\* C8: once an entry has a shareId, no step changes it to another value,
\* however share and unshare requests interleave at their awaits.
C8_ShareIdNeverChanges ==
    [][\A i \in 1..Len(entries) :
           (Truthy(entries[i].shareId) /\ Kept(entries[i].id))
              => getEntry(entries', entries[i].id)[1].shareId
                    = entries[i].shareId]_vars

\* C9: the scenario's submission (no caption, no captionText, no imageUrl)
\* is answered 201 with the caption "My travel memory" and the placeholder
\* image, and a submission with captionText and no caption is answered 201
\* with captionText as its caption.
C9_DefaultsFillMissingCaptionAndImage ==
    /\ (out.req.route = "create" /\ out.req.body = ScenarioBody) =>
          /\ out.resp.status = 201
          /\ out.resp.entries[1].caption = PlaceholderCaption
          /\ out.resp.entries[1].imageUrl = PlaceholderImage
    /\ (/\ out.req.route = "create"
        /\ out.req.body.caption = Undefined
        /\ out.req.body.captionText.t = "string"
        /\ Truthy(out.req.body.userId)
        /\ out.req.body.screenInfo.t = "object") =>
          /\ out.resp.status = 201
          /\ out.resp.entries[1].caption = out.req.body.captionText.s

\* the text is decimal digits only and denotes an integer above 0
PositiveInteger(text) ==
    /\ text # <<>>
    /\ \A i \in 1..Len(text) : DigitValue(text[i], 10) >= 0
    /\ DigitsValue(text, 10) > 0

\* C10: GET /api/entries/:id answers 400 when the parameter is no positive
\* integer, and 404 when it is one and no entry is stored under it.
C10_GetRejectsNonPositiveIntegerIds ==
    (out.req.route = "get" /\ out.resp.status # 0) =>
        IF PositiveInteger(out.req.id)
        THEN getEntry(entries, DigitsValue(out.req.id, 10)) = <<>>
                => out.resp.status = 404
        ELSE out.resp.status = 400

\* the key is absent from the body
Absent(v) == v.t = "undefined"

\* a location that is neither absent, null, nor an object of two numbers
MalformedLocation(location) ==
    /\ location.t \notin {"undefined", "null"}
    /\ ~(/\ location.t = "object"
         /\ location.lat.t = "number"
         /\ location.lng.t = "number")

\* a screenInfo that is present and no object of two numbers and a string
MalformedScreenInfo(screenInfo) ==
    /\ ~Absent(screenInfo)
    /\ ~(/\ screenInfo.t = "object"
         /\ screenInfo.width.t = "number"
         /\ screenInfo.height.t = "number"
         /\ screenInfo.orientation.t = "string")

\* a field of the submission is present and of another type than declared
WronglyTyped(body) ==
    \/ \E v \in {body.userId, body.caption, body.imageUrl, body.captionText} :
          ~Absent(v) /\ v.t # "string"
    \/ MalformedLocation(body.location)
    \/ MalformedScreenInfo(body.screenInfo)

\* userId missing or empty, screenInfo missing, or a wrongly typed field
FailsValidation(body) ==
    \/ ~Truthy(body.userId)
    \/ Absent(body.screenInfo)
    \/ WronglyTyped(body)

\* in this step the create route takes the submission from a free slot
CreateArrives(p, body) ==
    /\ Free(p)
    /\ \/ handler'[p].pc = "create_await" /\ handler'[p].req.body = body
       \/ /\ handler'[p].pc = "idle" /\ out' # out
          /\ out'.req = CreateRequest(body)

\* C11: a submission that fails validation (userId missing or empty,
\* screenInfo missing, a wrongly typed field) is answered 400 in the step
\* that takes it, and that step leaves the Map and the id counter as they
\* were.
C11_InvalidSubmissionChangesNothing ==
    [][\A p \in Handlers : \A body \in ApiBodies :
           (CreateArrives(p, body) /\ FailsValidation(body))
              => /\ handler'[p].pc = "idle"
                 /\ out'.resp.status = 400
                 /\ entries' = entries
                 /\ currentId' = currentId]_vars

\* C12: a submission whose location is present and malformed is answered
\* 400 and creates nothing, and no stored location is anything but null or
\* an object of two numbers.
C12_MalformedLocationRejected ==
    /\ (out.req.route = "create" /\ MalformedLocation(out.req.body.location))
          => out.resp.status = 400
    /\ \A i \in 1..Len(entries) :
          \/ entries[i].location.t = "null"
          \/ /\ entries[i].location.t = "object"
             /\ entries[i].location.lat.t = "number"
             /\ entries[i].location.lng.t = "number"

\* the ids whose entry a DELETE handler has removed from the Map
RemovedIds ==
    Range(deletedIds)
       \cup {handler[p].entryId : p \in {q \in Handlers : handler[q].pc = "delete_await"}}

\* C13: however create requests interleave, no id is assigned twice, the Map
\* holds one entry per id assigned and not deleted, and a creation in flight
\* finds its own entry under its id.
C13_ConcurrentCreatesNeverCollide ==
    /\ \A i, j \in 1..Len(assignedIds) :
          i # j => assignedIds[i] # assignedIds[j]
    /\ \A id \in Range(assignedIds) :
          id \in RemovedIds \/ getEntry(entries, id) # <<>>
    /\ Len(entries) + Cardinality(RemovedIds) = Len(assignedIds)
    /\ \A p \in Handlers :
          (handler[p].pc = "create_await"
              /\ handler[p].entryId \notin RemovedIds)
             => LET stored == getEntry(entries, handler[p].entryId)
                    made == handler[p].entry[1]
                IN  /\ stored # <<>>
                    /\ stored[1].id = made.id
                    /\ stored[1].userId = made.userId
                    /\ stored[1].caption = made.caption
                    /\ stored[1].createdAt = made.createdAt

\* two create requests are in flight together after their createEntry calls
C13_Witness ==
    /\ \A p \in Handlers : handler[p].pc = "create_await"
    /\ handler[1].entryId # handler[2].entryId
    /\ Len(entries) = 2

\* the Map holds no entry under the id
Gone(id) == getEntry(entries, id) = <<>>

\* C14: a share or unshare handler whose entry a DELETE has removed puts no
\* entry back under that id: it answers 404 when its own lookup found
\* nothing and 500 when the entry went between its lookup and its update,
\* and only createEntry, with a new id, ever adds an id to the Map.
C14_NoReinsertAfterDelete ==
    [][/\ \A id \in 1..currentId :
             (Gone(id) /\ getEntry(entries', id) # <<>>)
                => (id = currentId /\ currentId' = currentId + 1)
       /\ \A p \in Handlers :
             (/\ handler[p].pc \in {"share_check", "unshare_check"}
              /\ handler'[p] # handler[p]
              /\ Gone(handler[p].entryId))
                => /\ entries' = entries
                   /\ IF handler[p].entry = <<>>
                      THEN /\ handler'[p].pc = "idle"
                           /\ out'.req = handler[p].req
                           /\ out'.resp.status = 404
                      ELSE /\ handler'[p].pc \in {"share_await", "unshare_await"}
                           /\ handler'[p].entry = <<>>
       /\ \A p \in Handlers :
             (/\ handler[p].pc \in {"share_await", "unshare_await"}
              /\ handler'[p] # handler[p]
              /\ handler[p].entry = <<>>)
                => /\ out'.req = handler[p].req
                   /\ out'.resp.status = 500
                   /\ getEntry(entries', handler[p].entryId) = <<>>]_vars

\* a share request whose entry was deleted between its lookup and its
\* update was answered 500, and the id has no entry
C14_Witness ==
    /\ Answered("share", 500)
    /\ parseInt(out.req.id).n \in RemovedIds
    /\ Gone(parseInt(out.req.id).n)

\* C20: no two entries hold the same shareId, and a shareId held by an entry
\* is a token the share route generated for that very entry, also when the
\* entry an earlier token was generated for has been deleted.
C20_ShareIdsUniqueAcrossEntries ==
    /\ \A i, j \in 1..Len(entries) :
          (i # j /\ Truthy(entries[i].shareId))
             => entries[i].shareId # entries[j].shareId
    /\ \A i \in 1..Len(entries) :
          Truthy(entries[i].shareId)
             => \E k \in 1..Len(tokenOwner) :
                   /\ entries[i].shareId = uuidv4(k)
                   /\ tokenOwner[k] = entries[i].id

\* the entry of the first token was deleted and a later entry holds a token
C20_Witness ==
    /\ tokenOwner # <<>>
    /\ tokenOwner[1] \in Range(deletedIds)
    /\ \E i \in 1..Len(entries) :
          Truthy(entries[i].shareId) /\ entries[i].id # tokenOwner[1]

\* C15: on the Upload page the live camera (showCamera, or a stream held)
\* and a pending preview never exist together, also when a file is picked
\* while getUserMedia is pending.
C15_OneAcquisitionModeAtATime ==
    mounted =>
        ~((upload.showCamera \/ Truthy(upload.stream))
             /\ Truthy(upload.previewUrl))

\* C16: a stream whose tracks are live is the stream a mounted page holds:
\* after a capture, after closeCamera and after unmount no stream that was
\* acquired is left running.
C16_EveryStreamIsStopped ==
    \A k \in 1..Len(tracks) :
        tracks[k] => (mounted /\ upload.stream = MediaStream(k))

\* C17: no POST /api/entries is issued once the page has been left: the
\* result of a normalization that ends after the user went away is dropped.
C17_NoPostAfterLeaving ==
    [][Len(posted') > Len(posted) => mounted]_vars

\* C18: a submit without a file, and a submit whose uploadImage yields null,
\* issue no POST /api/entries and leave file, preview, caption and location
\* as they were; no request ever carries an entry without its image.
C18_FailedUploadPostsNothing ==
    [][/\ (SubmitStart /\ ~Truthy(upload.file))
             => (posted' = posted /\ submits' = submits /\ upload' = upload)
       /\ (\E i \in 1..Len(submits) : UploadImageDone(i, FALSE))
             => (posted' = posted /\ upload' = upload)
       /\ \A i \in 1..Len(posted') :
             Truthy(posted'[i].entryData.imageUrl)]_vars

\* the only submission made has failed in uploadImage: nothing was posted
\* and the form still holds its file, preview and caption
C18_Witness ==
    /\ toast = "Upload Error"
    /\ posted = <<>> /\ submits = <<>>
    /\ Truthy(upload.file) /\ Truthy(upload.previewUrl)
    /\ upload.captionText = "Fuji"

\* the larger of two sizes
Max(a, b) == IF a >= b THEN a ELSE b

\* C19: the output of the normalizer has no side above maxDimension (800),
\* keeps the aspect ratio (to the pixel), and is the input's size whenever
\* the input has no side above maxDimension.
C19_LargerSideBoundedByMaxDimension ==
    image.phase = "drawn" =>
        LET w == image.from.width
            h == image.from.height
        IN  /\ Max(image.width, image.height) <= MaxDimension
            /\ \/ image.height = (h * image.width) \div w
               \/ image.width = (w * image.height) \div h
            /\ Max(w, h) <= MaxDimension
                  => (image.width = w /\ image.height = h)

\* the Map holds an entry under the id
HoldsId(ents, id) == \E i \in 1..Len(ents) : ents[i].id = id

\* the positions of the four :id routes after their lookup
LookedUp == {"get_await", "delete_check", "share_check", "unshare_check"}

\* C21: get, delete, share and unshare on an id that has no stored entry
\* each answer 404 and leave the repository as it was: neither the arrival
\* of the request nor the step that answers it changes the Map or the id
\* counter.
C21_AbsentIdIsNotFoundAndChangesNothing ==
    [][\A p \in Handlers :
          /\ (/\ Free(p)
              /\ handler'[p].pc \in LookedUp
              /\ ~HoldsId(entries, handler'[p].entryId))
                => /\ handler'[p].entry = <<>>
                   /\ entries' = entries
                   /\ currentId' = currentId
          /\ (/\ handler[p].pc \in LookedUp
              /\ handler'[p] # handler[p]
              /\ ~HoldsId(entries, handler[p].entryId))
                => /\ handler'[p].pc = "idle"
                   /\ out'.req = handler[p].req
                   /\ out'.resp = Status(404)
                   /\ entries' = entries
                   /\ currentId' = currentId]_vars

\* an unshare of an id whose entry was deleted was answered 404 while the
\* Map holds another entry
C21_Witness ==
    /\ Answered("unshare", 404)
    /\ parseInt(out.req.id).n \in Range(deletedIds)
    /\ entries # <<>>

\* the fields of an entry that are set at creation
CreationFields(e) ==
    <<e.id, e.userId, e.caption, e.imageUrl, e.location, e.screenInfo,
      e.createdAt>>

\* the handler in slot p is at the updateEntrySharing call of its route and
\* takes the step
SharingUpdateBy(p) ==
    /\ handler[p].pc \in {"share_check", "unshare_check"}
    /\ handler'[p] # handler[p]

\* C23: no operation changes the id, userId, caption, imageUrl, location,
\* screenInfo or createdAt of an entry that stays in the Map; the update of
\* a share or unshare request changes nothing but isShared and shareId of
\* the entry of its id, and every other step leaves each entry it keeps
\* wholly as it was.
C23_OnlySharingFieldsOfTargetChange ==
    [][\A i \in 1..Len(entries), j \in 1..Len(entries') :
          entries[i].id = entries'[j].id
             => /\ CreationFields(entries'[j]) = CreationFields(entries[i])
                /\ entries'[j] # entries[i]
                      => \E p \in Handlers :
                            /\ SharingUpdateBy(p)
                            /\ handler[p].entryId = entries[i].id]_vars

\* a share request was answered 200 for one of two entries, and the other
\* entry is unshared and without shareId
C23_Witness ==
    /\ Answered("share", 200)
    /\ Len(entries) = 2
    /\ \E i \in 1..2 : entries[i].isShared /\ entries[i].id = parseInt(out.req.id).n
    /\ \E i \in 1..2 : ~entries[i].isShared /\ entries[i].shareId = Null

\* the place of an id in the Map's iteration order
PositionOf(ents, id) == CHOOSE i \in 1..Len(ents) : ents[i].id = id

\* entries of equal createdAt are in the Map's order in the list
TiesInInsertionOrder(list) ==
    \A k, l \in 1..Len(list) :
        (k < l /\ list[k].createdAt = list[l].createdAt)
           => PositionOf(entries, list[k].id) < PositionOf(entries, list[l].id)

\* C24: entries of one user with equal createdAt come in the list in the
\* order they were inserted in, in the list of every user over every Map
\* reached by creations and deletions, and in the list GET /api/entries
\* sends.
C24_EqualTimestampsKeepInsertionOrder ==
    /\ \A u \in ListUsers : TiesInInsertionOrder(getEntriesByUserId(entries, u))
    /\ Answered("list", 200) => TiesInInsertionOrder(out.resp.entries)

\* a list of two entries of the same createdAt was sent
C24_Witness ==
    /\ Answered("list", 200)
    /\ Len(out.resp.entries) = 2
    /\ out.resp.entries[1].createdAt = out.resp.entries[2].createdAt
    /\ out.resp.entries[1].id < out.resp.entries[2].id

\* C26: every entry is created unshared: the entry createEntry stores and
\* returns has isShared false and shareId null, whatever isShared and
\* shareId the submission carries, so no share token finds it, and that is
\* the entry the 201 response sends.
C26_CreatedUnshared ==
    [][\A p \in Handlers :
          /\ (Free(p) /\ handler'[p].pc = "create_await")
                => LET newEntry == handler'[p].entry[1]
                       body == handler'[p].req.body
                   IN  /\ newEntry.isShared = FALSE
                       /\ newEntry.shareId = Null
                       /\ getEntry(entries', newEntry.id) = <<newEntry>>
                       /\ body.shareId.t = "string"
                             => getEntryByShareId(entries', body.shareId) = <<>>
          /\ (handler[p].pc = "create_await" /\ handler'[p] # handler[p])
                => /\ out'.resp.status = 201
                   /\ out'.resp.entries[1].isShared = FALSE
                   /\ out'.resp.entries[1].shareId = Null]_vars

\* a submission with isShared true and a shareId of its own was answered 201
C26_Witness ==
    /\ Answered("create", 201)
    /\ out.req.body.isShared = Bool(TRUE)
    /\ out.req.body.shareId = Str("chosen")
    /\ getEntry(entries, out.resp.entries[1].id) # <<>>

\* the state of the capture session a page state stands for
SessionState(u) ==
    IF u.showCamera THEN "CameraActive"
    ELSE IF Truthy(u.previewUrl) THEN "HasImage" ELSE "Idle"

\* the transitions of the capture session
SessionTransitions ==
    {<<"Idle", "HasImage">>, <<"Idle", "CameraActive">>,
     <<"CameraActive", "HasImage">>, <<"HasImage", "Idle">>,
     <<"CameraActive", "Idle">>}

\* C25: the capture session moves only Idle->HasImage, Idle->CameraActive,
\* CameraActive->HasImage, HasImage->Idle and CameraActive->Idle;
\* removeImage clears the file and the preview; closeCamera leaves
\* showCamera false and no stream held, and selects no image.
C25_CaptureSessionTransitions ==
    [][/\ SessionState(upload') # SessionState(upload)
          => <<SessionState(upload), SessionState(upload')>>
                \in SessionTransitions
       /\ removeImage => upload'.file = Null /\ upload'.previewUrl = Null
       /\ closeCamera => /\ ~upload'.showCamera
                         /\ upload'.stream = Null
                         /\ upload'.file = upload.file
                         /\ upload'.previewUrl = upload.previewUrl]_vars

\* C27: a create request is issued only by a submission that is the only
\* one in flight: no other onSubmit call is awaiting uploadImage and no
\* create request of the form is pending.
C27_NoSecondCreateWhileInFlight ==
    [][Len(posted') > Len(posted) => (Len(submits) = 1 /\ ~IsPending)]_vars

\* C28: the file and the preview of the Upload page are both set or both
\* null, in every state reached by picking, capturing, removing, opening
\* and closing the camera.
C28_FileIffPreview ==
    Truthy(upload.file) <=> Truthy(upload.previewUrl)

\* the page holds the photo the camera took, with its preview, and the
\* camera is closed
C28_Witness ==
    /\ mounted
    /\ upload.file = File("camera-capture.jpg")
    /\ upload.previewUrl = ObjectUrl(File("camera-capture.jpg"))
    /\ ~upload.showCamera

\* C22: a request to an entry route whose Authorization header is missing
\* or carries no valid bearer token is answered 401 when it arrives, and
\* its handler neither reads nor changes the repository.
C22_NoValidTokenIsAnswered401 ==
    [][\A p \in Handlers :
          (handler'[p] # handler[p] /\ requireAuth(authorization) = Status(401))
             => /\ Free(p)
                /\ handler'[p] = IdleHandler
                /\ out'.resp = Status(401)
                /\ entries' = entries
                /\ currentId' = currentId]_vars

\* C29: whenever a Log In or Sign Up button of Header or Landing opens the
\* auth modal, the modal shows the mode the button asked for: the authMode
\* of the AuthModal is the authMode its host has set, after any openings,
\* closings and toggles before.
C29_ModalOpensInRequestedMode ==
    [][\A host \in Hosts :
          (/\ ~modals[host].host.isAuthModalOpen
           /\ modals'[host].host.isAuthModalOpen)
             => modals'[host].modal.authMode = modals'[host].host.authMode]_vars

\* C30: a protected page navigates to '/' only when the authentication
\* service holds no session, so a user with a session who loads a protected
\* page is not redirected while the session lookup is under way, and an
\* entry query is issued only with a user.
C30_RedirectOnlyWithoutSession ==
    [][/\ (/\ path \in Protected
           /\ path' = "/"
           /\ lastNavigation' = "redirect")
             => storedSession' = Null
       /\ \A q \in queries' \ queries : Truthy(q.user) /\ Truthy(auth'.user)]_vars

====
